---------------------------- MODULE Spec2Model ----------------------------
(***************************************************************************)
(* automail: render a jinja2 template into a mail message, let the user    *)
(* edit and confirm it, split it into headers and body, and submit it over *)
(* SMTP.  The model follows src/automail.py: main() is a sequential        *)
(* program whose position is pc; yes_no, edit_template, parse_message and  *)
(* send_message are modelled step by step where they touch the outside     *)
(* world (terminal, file system, editor process, SMTP connection).         *)
(*                                                                         *)
(* A text is a sequence of one-character strings.                          *)
(***************************************************************************)
EXTENDS Integers, Sequences, FiniteSets, TLC

VARIABLES
    pc,           \* position in main / the function it is executing
    args,         \* argparse namespace: list, noninteractive, dryrun, signature, starttls
    tmpl,         \* template source (sequence of characters and variable references)
    tmpl_vars,    \* names found by find_undeclared_variables
    cli_vars,     \* args.jinja_vars as parsed from the command line (never written)
    jinja_vars,   \* args.jinja_vars, the mapping main mutates and renders with
    missing_vars, \* main's missing_vars
    todo,         \* names the "for var in missing_vars" loop has still to visit
    render_arg,   \* the mapping handed to tmpl.render, empty before rendering
    message,      \* main's message
    headers,      \* main's headers (ordered mapping: sequence of <<key, value>>)
    content,      \* main's content
    tmpfile,      \* the temporary file of edit_template: "none", "exists", "removed"
    tmptext,      \* its content
    yn,           \* the frame of yes_no: pc, default, typed, choice, prompts, ret
    smtp,         \* the SMTP connection: conn, tls, submitted, quit
    trace,        \* log of the calls made and their outcomes, in order
    raised,       \* the uncaught exception, "none" if there is none
    exit_code,    \* the process's exit status, -1 while it runs
    hm,           \* header mapping H of the round-trip experiment
    bd            \* body B of the round-trip experiment

vars == <<pc, args, tmpl, tmpl_vars, cli_vars, jinja_vars, missing_vars, todo,
          render_arg, message, headers, content, tmpfile, tmptext, yn, smtp,
          trace, raised, exit_code, hm, bd>>

-----------------------------------------------------------------------------
(* Bounds of the model.                                                    *)

\* longest text the editor hands back
MaxEditLen == 2
\* most prompts of yes_no before the terminal reaches end of file
MaxPrompts == 3
\* longest text handed to parse_message on its own
MaxLen == 4
\* most entries of a header mapping in the round-trip experiment
MaxHdrs == 2

-----------------------------------------------------------------------------
(* Strings.                                                                *)

LF == "\n"

\* s[from..] of a sequence
Tail_From(s, from) == SubSeq(s, from, Len(s))

\* all texts over the alphabet A of length at most n
TextsUpTo(A, n) == UNION {[1..k -> A] : k \in 0..n}

\* str.split(sep) for a one-character separator: always at least one piece
RECURSIVE SplitAcc(_, _, _, _)
SplitAcc(s, sep, i, cur) ==
    IF i > Len(s) THEN <<cur>>
    ELSE IF s[i] = sep THEN <<cur>> \o SplitAcc(s, sep, i + 1, <<>>)
    ELSE SplitAcc(s, sep, i + 1, Append(cur, s[i]))

Split(s, sep) == SplitAcc(s, sep, 1, <<>>)

\* sep.join(pieces)
RECURSIVE Join(_, _)
Join(pieces, sep) ==
    IF Len(pieces) = 0 THEN <<>>
    ELSE IF Len(pieces) = 1 THEN pieces[1]
    ELSE pieces[1] \o <<sep>> \o Join(Tail(pieces), sep)

IsSpace(c) == c \in {" ", LF, "\t"}

\* str.strip(): leading and trailing whitespace removed
RECURSIVE LStrip(_)
LStrip(s) == IF Len(s) > 0 /\ IsSpace(s[1]) THEN LStrip(Tail(s)) ELSE s

RECURSIVE RStrip(_)
RStrip(s) ==
    IF Len(s) > 0 /\ IsSpace(s[Len(s)]) THEN RStrip(SubSeq(s, 1, Len(s) - 1)) ELSE s

Strip(s) == RStrip(LStrip(s))

\* str.lower(), character by character
LowerChar(c) ==
    CASE c = "Y" -> "y"
      [] c = "E" -> "e"
      [] c = "S" -> "s"
      [] c = "N" -> "n"
      [] c = "O" -> "o"
      [] OTHER -> c

Lower(s) == [i \in 1..Len(s) |-> LowerChar(s[i])]

-----------------------------------------------------------------------------
(* Ordered mappings (Python dict): a sequence of <<key, value>> pairs with   *)
(* distinct keys, in insertion order.                                      *)

DictKeys(d) == {d[i][1] : i \in 1..Len(d)}

\* d[k] = v: an existing key keeps its place, a new one goes last
DictSet(d, k, v) ==
    IF k \in DictKeys(d)
    THEN [i \in 1..Len(d) |-> IF d[i][1] = k THEN <<k, v>> ELSE d[i]]
    ELSE Append(d, <<k, v>>)

-----------------------------------------------------------------------------
(* parse_message                                                           *)

\* the for loop of parse_message from line i on; err: the unpacking of
\* line.split(':') into key, val raised ValueError
RECURSIVE ParseLoop(_, _, _, _)
ParseLoop(lines, i, index, hdrs) ==
    IF i > Len(lines) THEN [err |-> FALSE, index |-> index, hdrs |-> hdrs]
    ELSE IF lines[i] = <<>> THEN [err |-> FALSE, index |-> index, hdrs |-> hdrs]
    ELSE LET parts == Split(lines[i], ":")
         IN  IF Len(parts) # 2
             THEN [err |-> TRUE, index |-> index + 1, hdrs |-> hdrs]
             ELSE ParseLoop(lines, i + 1, index + 1,
                            DictSet(hdrs, Strip(parts[1]), Strip(parts[2])))

\* parse_message with a line that has no second part taken as a key
\* without a value, instead of raising
RECURSIVE ParseLoopLenient(_, _, _, _)
ParseLoopLenient(lines, i, index, hdrs) ==
    IF i > Len(lines) THEN [err |-> FALSE, index |-> index, hdrs |-> hdrs]
    ELSE IF lines[i] = <<>> THEN [err |-> FALSE, index |-> index, hdrs |-> hdrs]
    ELSE LET parts == Split(lines[i], ":")
         IN  IF Len(parts) > 2
             THEN [err |-> TRUE, index |-> index + 1, hdrs |-> hdrs]
             ELSE ParseLoopLenient(lines, i + 1, index + 1,
                      DictSet(hdrs, Strip(parts[1]),
                              IF Len(parts) = 2 THEN Strip(parts[2]) ELSE <<>>))

parse_message_Lenient(msg) ==
    LET lines == Split(msg, LF)
        r     == ParseLoopLenient(lines, 1, 1, <<>>)
    IN  [err  |-> r.err,
         hdrs |-> r.hdrs,
         body |-> Join(Tail_From(lines, r.index + 1), LF)]

\* parse_message with index counted from 0
parse_message_IndexFromZero(msg) ==
    LET lines == Split(msg, LF)
        r     == ParseLoop(lines, 1, 0, <<>>)
    IN  [err  |-> r.err,
         hdrs |-> r.hdrs,
         body |-> Join(Tail_From(lines, r.index + 1), LF)]

\* the value index starts from
IndexStart == 1

parse_message(msg) ==
    LET lines == Split(msg, LF)
        r     == ParseLoop(lines, 1, IndexStart, <<>>)
    IN  [err  |-> r.err,
         hdrs |-> r.hdrs,
         body |-> Join(Tail_From(lines, r.index + 1), LF)]

-----------------------------------------------------------------------------
(* Templates (jinja2).  A template source is a sequence of items, each a   *)
(* literal character <<"lit", c>> or a variable reference <<"var", name>>. *)

Lit(c) == <<"lit", c>>
Var(n) == <<"var", n>>

Names == {"n", "m"}

Values == {<<"a">>, <<":">>}

\* the template files of the model
Templates ==
    { <<Lit("S"), Lit(":"), Var("n"), Lit(LF), Lit(LF), Var("m")>>,
      <<Lit("S"), Lit(":"), Var("n"), Lit(LF)>>,
      <<Lit("S"), Lit(":"), Lit("a"), Lit(LF), Lit(LF), Lit("b")>>,
      <<Lit("a"), Lit(LF), Lit(LF), Lit("b")>> }

\* the mappings the command line can give: StoreDict's my_dict
Mappings == UNION {[D -> Values] : D \in SUBSET Names}

\* jinja2.meta.find_undeclared_variables
TemplateVars(t) == {t[i][2] : i \in {j \in 1..Len(t) : t[j][1] = "var"}}

\* jinja2 drops one trailing newline of the template source
\* (keep_trailing_newline is off)
DropTrailingNewline(t) ==
    IF Len(t) > 0 /\ t[Len(t)] = Lit(LF) THEN SubSeq(t, 1, Len(t) - 1) ELSE t

RECURSIVE RenderItems(_, _)
RenderItems(t, m) ==
    IF Len(t) = 0 THEN <<>>
    ELSE (IF t[1][1] = "lit" THEN <<t[1][2]>>
          ELSE IF t[1][2] \in DOMAIN m THEN m[t[1][2]]
          ELSE <<>>)                 \* jinja2's Undefined renders as nothing
         \o RenderItems(Tail(t), m)

\* tmpl.render(mapping)
Render(t, m) == RenderItems(DropTrailingNewline(t), m)

\* "{{{{ {} }}}}".format(var)
Placeholder(var) == <<"{", "{", " ", var, " ", "}", "}">>

\* my_dict[key] = val on an unordered mapping
MapSet(m, k, v) == [x \in DOMAIN m \cup {k} |-> IF x = k THEN v ELSE m[x]]

\* the set difference taken the wrong way round
MissingVars_Reversed(tvars, m) == DOMAIN m \ tvars

\* tmpl_vars - set(args.jinja_vars.keys())
MissingVars(tvars, m) == tvars \ DOMAIN m

\* the signature file's text
SigText == <<"-", "s">>

\* add_signature's result
WithSignature(msg) == msg \o <<LF>> \o SigText

-----------------------------------------------------------------------------
(* Control.                                                                *)

NoYesNo == [pc |-> "idle", default |-> "None", typed |-> <<>>, choice |-> <<>>,
            prompts |-> 0, ret |-> FALSE]

NoSmtp == [conn |-> "none", tls |-> FALSE, submitted |-> FALSE, quit |-> FALSE]

\* an uncaught exception ends the process with a traceback and status 1
Raise(exc) ==
    /\ pc' = "exited"
    /\ raised' = exc
    /\ exit_code' = 1

\* main returns v; sys.exit(None) is status 0
Return(v) ==
    /\ pc' = "exited"
    /\ raised' = raised
    /\ exit_code' = v

Goto(l) ==
    /\ pc' = l
    /\ UNCHANGED <<raised, exit_code>>

Log(e) == trace' = Append(trace, e)

Logged(e) == \E i \in 1..Len(trace) : trace[i] = e

Count(e) == Cardinality({i \in 1..Len(trace) : trace[i] = e})

inputVars == <<tmpl, tmpl_vars, cli_vars, hm, bd>>
varVars   == <<jinja_vars, missing_vars, todo, render_arg>>
msgVars   == <<message, headers, content>>
fileVars  == <<tmpfile, tmptext>>

-----------------------------------------------------------------------------
(* main, up to the composed message.                                       *)

\* apply_cfg: the config file may be missing or lack a key; an unset
\* args.starttls is taken from the server's section
ApplyCfg ==
    /\ pc = "apply_cfg"
    /\ \/ /\ Raise("ConfigError")
          /\ UNCHANGED args
       \/ /\ \E st \in {"True", "False"} :
                args' = [args EXCEPT !.starttls = IF @ = "None" THEN st ELSE @]
          /\ Goto("load_template")
    /\ UNCHANGED <<inputVars, varVars, msgVars, fileVars, yn, smtp, trace>>

LoadTemplate ==
    /\ pc = "load_template"
    /\ \/ /\ Raise("TemplateNotFound")
          /\ UNCHANGED <<tmpl, tmpl_vars>>
       \/ /\ \E t \in Templates :
                /\ tmpl' = t
                /\ tmpl_vars' = TemplateVars(t)
          /\ Goto("list")
    /\ UNCHANGED <<args, cli_vars, hm, bd, varVars, msgVars, fileVars, yn, smtp, trace>>

\* lines 289-294: list mode returns, otherwise the missing set is computed
ListOrResolve ==
    /\ pc = "list"
    /\ IF args.list
       THEN /\ Return(0)
            /\ UNCHANGED missing_vars
       ELSE /\ missing_vars' = MissingVars(tmpl_vars, jinja_vars)
            /\ Goto("mode")
    /\ UNCHANGED <<args, inputVars, jinja_vars, todo, render_arg, msgVars,
                   fileVars, yn, smtp, trace>>

\* Mode without the check of lines 297-300
Mode_NoMissingCheck ==
    /\ pc = "mode"
    /\ IF args.noninteractive
       THEN /\ Goto("render")
            /\ UNCHANGED todo
       ELSE /\ todo' = missing_vars
            /\ Goto(IF missing_vars = {} THEN "render" ELSE "inject")
    /\ UNCHANGED <<args, inputVars, jinja_vars, missing_vars, render_arg, msgVars,
                   fileVars, yn, smtp, trace>>

\* lines 296-300 and 311
Mode ==
    /\ pc = "mode"
    /\ IF args.noninteractive
       THEN /\ IF missing_vars # {} THEN Return(1) ELSE Goto("render")
            /\ UNCHANGED todo
       ELSE /\ todo' = missing_vars
            /\ Goto(IF missing_vars = {} THEN "render" ELSE "inject")
    /\ UNCHANGED <<args, inputVars, jinja_vars, missing_vars, render_arg, msgVars,
                   fileVars, yn, smtp, trace>>

\* one turn of "for var in missing_vars" (lines 311-312)
Inject ==
    /\ pc = "inject"
    /\ \E var \in todo :
          /\ jinja_vars' = MapSet(jinja_vars, var, Placeholder(var))
          /\ todo' = todo \ {var}
          /\ Goto(IF todo = {var} THEN "render" ELSE "inject")
    /\ UNCHANGED <<args, inputVars, missing_vars, render_arg, msgVars,
                   fileVars, yn, smtp, trace>>

\* where main goes with the composed text
AfterCompose == IF args.noninteractive THEN "parse" ELSE "edit_create"

\* tmpl.render(args.jinja_vars), lines 302-305 and 316-318
RenderTemplate ==
    /\ pc = "render"
    /\ render_arg' = jinja_vars
    /\ message' = Render(tmpl, jinja_vars)
    /\ Log("render")
    /\ Goto(IF args.signature THEN "signature" ELSE AfterCompose)
    /\ UNCHANGED <<args, inputVars, jinja_vars, missing_vars, todo, headers,
                   content, fileVars, yn, smtp>>

\* add_signature: the signature file may not open
AddSignature ==
    /\ pc = "signature"
    /\ Log("signature")
    /\ \/ /\ Raise("OSError")
          /\ UNCHANGED message
       \/ /\ message' = WithSignature(message)
          /\ Goto(AfterCompose)
    /\ UNCHANGED <<args, inputVars, varVars, headers, content, fileVars, yn, smtp>>

-----------------------------------------------------------------------------
(* edit_template                                                           *)

EditAlphabet == {"a", ":", LF}

\* what the user can leave in the file
EditorOutputs == TextsUpTo(EditAlphabet, MaxEditLen)

\* lines 166-169: the file is created (delete=False) and the text written
EditCreate ==
    /\ pc = "edit_create"
    /\ Log("edit_template")
    /\ \/ /\ Raise("OSError")                    \* NamedTemporaryFile fails
          /\ UNCHANGED fileVars
       \/ /\ Raise("OSError")                    \* tmpf.write fails
          /\ tmpfile' = "exists"
          /\ tmptext' = <<>>
       \/ /\ tmpfile' = "exists"
          /\ tmptext' = message
          /\ Goto("edit_run")
    /\ UNCHANGED <<args, inputVars, varVars, msgVars, yn, smtp>>

\* line 171: os.environ["EDITOR"] and subprocess.check_call
EditRun ==
    /\ pc = "edit_run"
    /\ \/ /\ Raise("KeyError")                   \* EDITOR is not set
          /\ UNCHANGED <<tmptext, trace>>
       \/ /\ Raise("CalledProcessError")         \* the editor exits non-zero
          /\ \E out \in EditorOutputs \cup {tmptext} : tmptext' = out
          /\ Log("editor_failed")
       \/ /\ \E out \in EditorOutputs \cup {tmptext} : tmptext' = out
          /\ Log("editor_ok")
          /\ Goto("edit_read")
    /\ UNCHANGED <<args, inputVars, varVars, msgVars, tmpfile, yn, smtp>>

\* lines 173-175: the read-back
EditRead ==
    /\ pc = "edit_read"
    /\ \/ Raise("OSError")
       \/ Goto("edit_remove")
    /\ UNCHANGED <<args, inputVars, varVars, msgVars, fileVars, yn, smtp, trace>>

\* lines 177-179 and main's assignment of the result (lines 315-321)
EditRemove ==
    /\ pc = "edit_remove"
    /\ tmpfile' = "removed"
    /\ tmptext' = <<>>
    /\ message' = tmptext
    /\ Goto(IF args.dryrun THEN "parse" ELSE "confirm")
    /\ UNCHANGED <<args, inputVars, varVars, headers, content, yn, smtp, trace>>

-----------------------------------------------------------------------------
(* yes_no                                                                  *)

\* what the user can type at the prompt
Tokens ==
    { <<>>, <<"y">>, <<"Y">>, <<"y", "e", "s">>, <<"Y", "E", "S">>, <<"Y", "e", "s">>,
      <<"n">>, <<"N">>, <<"n", "o">>, <<"N", "O">>, <<"n", "O">>,
      <<"x">>, <<"y", "e">>, <<" ", "y">>, <<"y", "e", "s", "s">>, <<"o", "n">> }

Defaults == {"None", "yes", "no", "maybe"}

\* the dictionary valid, lines 45-50
ValidKeys == {<<"y", "e", "s">>, <<"y">>, <<"n", "o">>, <<"n">>}

ValidOf(choice) == choice \in {<<"y", "e", "s">>, <<"y">>}

\* a default as the key it names in valid
DefaultKey(d) == IF d = "yes" THEN <<"y", "e", "s">> ELSE <<"n", "o">>

\* lines 52-59: the prompt is chosen, an unknown default raises ValueError
YesNoEnter ==
    /\ pc = "gate"
    /\ yn.pc = "called"
    /\ IF yn.default \in {"None", "yes", "no"}
       THEN /\ yn' = [yn EXCEPT !.pc = "loop"]
            /\ Goto("gate")
       ELSE /\ yn' = [yn EXCEPT !.pc = "raised"]
            /\ Raise("ValueError")
    /\ UNCHANGED <<args, inputVars, varVars, msgVars, fileVars, smtp, trace>>

\* one turn of the loop without .lower()
YesNoTurn_NoLower(f, tok) ==
    LET choice == tok
        g      == [f EXCEPT !.typed = tok, !.choice = choice, !.prompts = @ + 1]
    IN  IF f.default # "None" /\ choice = <<>>
        THEN [g EXCEPT !.pc = "returned", !.ret = ValidOf(DefaultKey(f.default))]
        ELSE IF choice \in ValidKeys
        THEN [g EXCEPT !.pc = "returned", !.ret = ValidOf(choice)]
        ELSE g

\* the result of one turn of the loop (lines 63-67) on the typed token:
\* the frame after it
YesNoTurn(f, tok) ==
    LET choice == Lower(tok)
        g      == [f EXCEPT !.typed = tok, !.choice = choice, !.prompts = @ + 1]
    IN  IF f.default # "None" /\ choice = <<>>
        THEN [g EXCEPT !.pc = "returned", !.ret = ValidOf(DefaultKey(f.default))]
        ELSE IF choice \in ValidKeys
        THEN [g EXCEPT !.pc = "returned", !.ret = ValidOf(choice)]
        ELSE g

\* one turn of "while True" (lines 61-67); input() raises EOFError at the
\* end of the terminal's input
YesNoPrompt ==
    /\ pc = "gate"
    /\ yn.pc = "loop"
    /\ \/ /\ yn' = [yn EXCEPT !.pc = "raised"]
          /\ Raise("EOFError")
       \/ /\ yn.prompts < MaxPrompts
          /\ \E tok \in Tokens : yn' = YesNoTurn(yn, tok)
          /\ Goto("gate")
    /\ UNCHANGED <<args, inputVars, varVars, msgVars, fileVars, smtp, trace>>

\* line 322: main calls yes_no(question, "no")
CallGate ==
    /\ pc = "confirm"
    /\ yn' = [NoYesNo EXCEPT !.pc = "called", !.default = "no"]
    /\ Log("yes_no")
    /\ Goto("gate")
    /\ UNCHANGED <<args, inputVars, varVars, msgVars, fileVars, smtp>>

\* GateReturn going on whatever the answer
GateReturn_IgnoreAnswer ==
    /\ pc = "gate"
    /\ yn.pc = "returned"
    /\ yn' = NoYesNo
    /\ Log(IF yn.ret THEN "confirmed" ELSE "declined")
    /\ Goto("parse")
    /\ UNCHANGED <<args, inputVars, varVars, msgVars, fileVars, smtp>>

\* lines 322-323: main returns when the answer is no
GateReturn ==
    /\ pc = "gate"
    /\ yn.pc = "returned"
    /\ yn' = NoYesNo
    /\ IF yn.ret
       THEN /\ Log("confirmed")
            /\ Goto("parse")
       ELSE /\ Log("declined")
            /\ Return(0)
    /\ UNCHANGED <<args, inputVars, varVars, msgVars, fileVars, smtp>>

-----------------------------------------------------------------------------
(* main from parse_message on, and send_message.                           *)

\* line 325
ParseMessage ==
    /\ pc = "parse"
    /\ LET r == parse_message(message)
       IN  IF r.err
           THEN /\ Raise("ValueError")
                /\ Log("parse_failed")
                /\ UNCHANGED <<headers, content>>
           ELSE /\ headers' = r.hdrs
                /\ content' = r.body
                /\ Log("parsed")
                /\ Goto("build")
    /\ UNCHANGED <<args, inputVars, varVars, message, fileVars, yn, smtp>>

\* BuildMail without the test of args.dryrun
BuildMail_IgnoreDryrun ==
    /\ pc = "build"
    /\ \/ Raise("ValueError")
       \/ Goto("connect")
    /\ UNCHANGED <<args, inputVars, varVars, msgVars, fileVars, yn, smtp, trace>>

\* lines 327-336: the EmailMessage is filled (the email policy may reject a
\* header) and, unless this is a dry run, send_message is called
BuildMail ==
    /\ pc = "build"
    /\ \/ Raise("ValueError")
       \/ IF args.dryrun THEN Return(0) ELSE Goto("connect")
    /\ UNCHANGED <<args, inputVars, varVars, msgVars, fileVars, yn, smtp, trace>>

\* line 235: smtplib.SMTP(host, port) connects
Connect ==
    /\ pc = "connect"
    /\ Log("send_message")
    /\ \/ /\ Raise("OSError")
          /\ UNCHANGED smtp
       \/ /\ smtp' = [smtp EXCEPT !.conn = "open"]
          /\ Goto(IF args.starttls = "True" THEN "starttls" ELSE "submit")
    /\ UNCHANGED <<args, inputVars, varVars, msgVars, fileVars, yn>>

\* lines 236-238
StartTLS ==
    /\ pc = "starttls"
    /\ \/ /\ Raise("SMTPException")
          /\ UNCHANGED smtp
       \/ /\ smtp' = [smtp EXCEPT !.tls = TRUE]
          /\ Goto("submit")
    /\ UNCHANGED <<args, inputVars, varVars, msgVars, fileVars, yn, trace>>

\* line 240
Submit ==
    /\ pc = "submit"
    /\ \/ /\ Raise("SMTPException")
          /\ UNCHANGED smtp
       \/ /\ smtp' = [smtp EXCEPT !.submitted = TRUE]
          /\ Goto("quit")
    /\ UNCHANGED <<args, inputVars, varVars, msgVars, fileVars, yn, trace>>

\* line 241, and main's return
Quit ==
    /\ pc = "quit"
    /\ smtp' = [smtp EXCEPT !.conn = "closed", !.quit = TRUE]
    /\ Return(0)
    /\ UNCHANGED <<args, inputVars, varVars, msgVars, fileVars, yn, trace>>

-----------------------------------------------------------------------------
(* Specifications.                                                         *)

ArgSets == [list : BOOLEAN, noninteractive : BOOLEAN, dryrun : BOOLEAN,
            signature : BOOLEAN, starttls : {"None", "True", "False"}]

Idle ==
    /\ tmpl = <<>>
    /\ tmpl_vars = {}
    /\ missing_vars = {}
    /\ todo = {}
    /\ render_arg = <<>>
    /\ headers = <<>>
    /\ content = <<>>
    /\ tmpfile = "none"
    /\ tmptext = <<>>
    /\ smtp = NoSmtp
    /\ trace = <<>>
    /\ raised = "none"
    /\ exit_code = -1

\* a run of main: the command line is parsed
Init ==
    /\ pc = "apply_cfg"
    /\ args \in ArgSets
    /\ cli_vars \in Mappings
    /\ jinja_vars = cli_vars
    /\ message = <<>>
    /\ yn = NoYesNo
    /\ hm = <<>>
    /\ bd = <<>>
    /\ Idle

Next ==
    \/ ApplyCfg
    \/ LoadTemplate
    \/ ListOrResolve
    \/ Mode
    \/ Inject
    \/ RenderTemplate
    \/ AddSignature
    \/ EditCreate
    \/ EditRun
    \/ EditRead
    \/ EditRemove
    \/ CallGate
    \/ YesNoEnter
    \/ YesNoPrompt
    \/ GateReturn
    \/ ParseMessage
    \/ BuildMail
    \/ Connect
    \/ StartTLS
    \/ Submit
    \/ Quit

Spec == Init /\ [][Next]_vars

\* main from line 325 on, with any text as the composed message; the log
\* starts here
ParseAlphabet == {"a", ":", " ", LF}

DeliveryArgs ==
    {a \in ArgSets : ~a.list /\ a.noninteractive /\ ~a.signature /\ a.starttls # "None"}

InitParse ==
    /\ pc = "parse"
    /\ args \in DeliveryArgs
    /\ cli_vars = <<>>
    /\ jinja_vars = <<>>
    /\ message \in TextsUpTo(ParseAlphabet, MaxLen)
    /\ yn = NoYesNo
    /\ hm = <<>>
    /\ bd = <<>>
    /\ Idle

NextParse ==
    \/ ParseMessage
    \/ BuildMail
    \/ Connect
    \/ StartTLS
    \/ Submit
    \/ Quit

SpecParse == InitParse /\ [][NextParse]_vars

\* the round trip: a header mapping H and a body B are assembled into a
\* text, which main parses
HdrKeys == {<<"a">>, <<"b">>, <<"a", "b">>}

HdrValues == {<<>>, <<"x">>, <<"x", " ", "y">>, <<"x", ":", "y">>}

HeaderMappings ==
    {h \in UNION {[1..k -> HdrKeys \X HdrValues] : k \in 1..MaxHdrs} :
        \A i, j \in 1..Len(h) : h[i][1] = h[j][1] => i = j}

Bodies == TextsUpTo({"b", LF}, MaxLen)

\* one "Key: Value" line per entry, a blank line, the body
RECURSIVE HeaderLines(_)
HeaderLines(h) ==
    IF Len(h) = 0 THEN <<>>
    ELSE h[1][1] \o <<":", " ">> \o h[1][2] \o <<LF>> \o HeaderLines(Tail(h))

Assemble(h, b) == HeaderLines(h) \o <<LF>> \o b

InitRoundTrip ==
    /\ pc = "parse"
    /\ args \in DeliveryArgs
    /\ cli_vars = <<>>
    /\ jinja_vars = <<>>
    /\ hm \in HeaderMappings
    /\ bd \in Bodies
    /\ message = Assemble(hm, bd)
    /\ yn = NoYesNo
    /\ Idle

SpecRoundTrip == InitRoundTrip /\ [][NextParse]_vars

\* yes_no on its own, called with any default
InitGate ==
    /\ pc = "gate"
    /\ args = [list |-> FALSE, noninteractive |-> FALSE, dryrun |-> FALSE,
               signature |-> FALSE, starttls |-> "True"]
    /\ cli_vars = <<>>
    /\ jinja_vars = <<>>
    /\ message = <<>>
    /\ \E d \in Defaults : yn = [NoYesNo EXCEPT !.pc = "called", !.default = d]
    /\ hm = <<>>
    /\ bd = <<>>
    /\ Idle

NextGate ==
    \/ YesNoEnter
    \/ YesNoPrompt

SpecGate == InitGate /\ [][NextGate]_vars

-----------------------------------------------------------------------------
(* Properties.                                                             *)

Exited == pc = "exited"

\* every e2 in the trace has an e1 before it
Before(e1, e2) ==
    \A j \in 1..Len(trace) :
        trace[j] = e2 => \E i \in 1..(j - 1) : trace[i] = e1

\* the template is loaded and refers to a variable the command line does
\* not give
MissingOnCommandLine == tmpl_vars \ DOMAIN cli_vars # {}

NothingInvoked ==
    /\ ~Logged("send_message")
    /\ ~Logged("render")
    /\ ~Logged("edit_template")
    /\ ~Logged("yes_no")
    /\ smtp = NoSmtp

\* C1 as stated: a non-interactive run with a missing variable ends with a
\* non-zero exit status and never renders, edits, asks or sends.
C1_AsStated ==
    (args.noninteractive /\ MissingOnCommandLine) =>
        /\ NothingInvoked
        /\ Exited => exit_code # 0

\* C1, amended: a non-interactive run with a missing variable never renders
\* the template and never invokes the editor, the confirmation gate or
\* send_message; it ends with a non-zero exit status unless list mode is
\* set, in which case it ends with status 0.
C1_MissingNonInteractive ==
    (args.noninteractive /\ MissingOnCommandLine) =>
        /\ NothingInvoked
        /\ Exited => IF args.list THEN exit_code = 0 ELSE exit_code # 0

C1_Witness ==
    /\ Exited
    /\ args.noninteractive
    /\ ~args.list
    /\ MissingOnCommandLine
    /\ missing_vars # {}
    /\ raised = "none"
    /\ exit_code = 1

\* C2: in a dry run send_message and the confirmation gate are never
\* invoked, and a dry run that runs to its end (not list mode) has rendered
\* the template, run the editor when interactive, and parsed the message.
C2_DryRun ==
    args.dryrun =>
        /\ ~Logged("send_message")
        /\ ~Logged("yes_no")
        /\ smtp = NoSmtp
        /\ (Exited /\ raised = "none" /\ exit_code = 0 /\ ~args.list) =>
              /\ Logged("render")
              /\ Logged("parsed")
              /\ ~args.noninteractive =>
                    Logged("edit_template") /\ Logged("editor_ok")

C2_Witness ==
    /\ args.dryrun
    /\ ~args.noninteractive
    /\ Exited
    /\ exit_code = 0
    /\ Logged("editor_ok")
    /\ Logged("parsed")

\* control is inside edit_template
InEditTemplate == pc \in {"edit_run", "edit_read", "edit_remove"}

\* C3: once edit_template has been left, by return or by exception, the
\* temporary file it created no longer exists.
C3_TempFileRemoved ==
    (Logged("edit_template") /\ ~InEditTemplate) => tmpfile # "exists"

\* control is inside send_message
InSendMessage == pc \in {"starttls", "submit", "quit"}

\* C4: once send_message has connected and has been left, by return or by
\* exception, quit was issued and the connection is closed.
C4_ConnectionClosed ==
    (smtp.conn # "none" /\ ~InSendMessage) =>
        smtp.quit /\ smtp.conn = "closed"

\* C5: parsing the text assembled from a header mapping H and a body B
\* succeeds and gives back H, in order, and B.
C5_RoundTrip ==
    pc # "parse" => (Logged("parsed") /\ headers = hm /\ content = bd)

\* the lines up to the first empty line (all lines when there is none)
RECURSIVE HeaderBlock(_)
HeaderBlock(lines) ==
    IF Len(lines) = 0 \/ lines[1] = <<>> THEN <<>>
    ELSE <<lines[1]>> \o HeaderBlock(Tail(lines))

HasColon(line) == \E i \in 1..Len(line) : line[i] = ":"

ColonlessHeaderLine(msg) ==
    LET block == HeaderBlock(Split(msg, LF))
    IN  \E i \in 1..Len(block) : ~HasColon(block[i])

\* C6: a header-block line without a colon makes parse_message raise, and
\* main then ends without invoking send_message; whether parse_message
\* raises depends on the header block alone, not on the lines after the
\* first empty line.
C6_ColonlessHeaderFails ==
    pc # "parse" =>
        /\ ColonlessHeaderLine(message) =>
              /\ Logged("parse_failed")
              /\ ~Logged("parsed")
              /\ Exited
              /\ raised = "ValueError"
              /\ exit_code # 0
              /\ ~Logged("send_message")
              /\ smtp = NoSmtp
        /\ Logged("parse_failed") <=>
              parse_message(Join(HeaderBlock(Split(message, LF)), LF)).err

C6_Witness ==
    /\ Logged("parse_failed")
    /\ ColonlessHeaderLine(message)
    /\ \E i \in 1..Len(message) : message[i] = ":"
    /\ Len(Split(message, LF)) > Len(HeaderBlock(Split(message, LF))) + 1

EmptyLines(lines) == {i \in 1..Len(lines) : lines[i] = <<>>}

FirstEmpty(lines) ==
    CHOOSE i \in EmptyLines(lines) : \A j \in EmptyLines(lines) : i <= j

\* the lines after the first empty line, rejoined with newlines
BodyOf(lines) ==
    IF EmptyLines(lines) = {} THEN <<>>
    ELSE Join(SubSeq(lines, FirstEmpty(lines) + 1, Len(lines)), LF)

\* C7: when parse_message returns, the body is the lines after the first
\* empty line rejoined with newlines; with no empty line the body is empty
\* and every line has become a header; the body is empty when the first
\* empty line is the last line.
C7_Body ==
    Logged("parsed") =>
        LET lines == Split(message, LF)
        IN  /\ content = BodyOf(lines)
            /\ EmptyLines(lines) = {} =>
                  /\ content = <<>>
                  /\ \A i \in 1..Len(lines) :
                        Strip(Split(lines[i], ":")[1]) \in DictKeys(headers)
            /\ (EmptyLines(lines) # {} /\ FirstEmpty(lines) = Len(lines)) =>
                  content = <<>>
            /\ DictKeys(headers) =
                  {Strip(Split(l, ":")[1]) :
                      l \in {HeaderBlock(lines)[i] : i \in 1..Len(HeaderBlock(lines))}}

C7_Witness ==
    /\ Logged("parsed")
    /\ EmptyLines(Split(message, LF)) = {}
    /\ Len(Split(message, LF)) = 2
    /\ Len(headers) = 2
    /\ content = <<>>

\* yes, y (affirmative) and no, n (negative) in any mix of cases
IsOneOf(c, lower, upper) == c = lower \/ c = upper

IsAffirmative(tok) ==
    \/ Len(tok) = 1 /\ IsOneOf(tok[1], "y", "Y")
    \/ /\ Len(tok) = 3
       /\ IsOneOf(tok[1], "y", "Y")
       /\ IsOneOf(tok[2], "e", "E")
       /\ IsOneOf(tok[3], "s", "S")

IsNegative(tok) ==
    \/ Len(tok) = 1 /\ IsOneOf(tok[1], "n", "N")
    \/ /\ Len(tok) = 2
       /\ IsOneOf(tok[1], "n", "N")
       /\ IsOneOf(tok[2], "o", "O")

\* an input that ends the gate
Recognized(tok, default) ==
    \/ IsAffirmative(tok)
    \/ IsNegative(tok)
    \/ tok = <<>> /\ default # "None"

\* C8: yes_no prompts again exactly after an input that is not recognized
\* (with no default, the empty input is not), so it returns at the first
\* recognized input; it returns true for yes/y, false for no/n whatever the
\* default, and the default's value for the empty input.
C8_Gate ==
    /\ (yn.pc = "loop" /\ yn.prompts > 0) => ~Recognized(yn.typed, yn.default)
    /\ yn.pc = "returned" =>
          /\ Recognized(yn.typed, yn.default)
          /\ yn.prompts > 0
          /\ IsAffirmative(yn.typed) => yn.ret
          /\ IsNegative(yn.typed) => ~yn.ret
          /\ yn.typed = <<>> => (yn.ret <=> yn.default = "yes")

C8_Witness ==
    /\ yn.pc = "returned"
    /\ yn.default = "no"
    /\ yn.typed = <<>>
    /\ ~yn.ret
    /\ yn.prompts > 1

\* C9: the mapping the template is rendered with has every name of the
\* template as a key (non-interactive: nothing is missing at the render;
\* interactive: a placeholder was injected for each missing name), and the
\* injection writes only missing names and leaves command-line values alone.
C9_RenderKeys ==
    /\ Logged("render") => tmpl_vars \subseteq DOMAIN render_arg
    /\ pc = "render" => tmpl_vars \subseteq DOMAIN jinja_vars
    /\ (pc = "render" /\ args.noninteractive) => missing_vars = {}
    /\ pc \notin {"apply_cfg", "load_template", "list", "exited"} =>
          missing_vars = tmpl_vars \ DOMAIN cli_vars
    /\ \A k \in DOMAIN cli_vars :
          k \in DOMAIN jinja_vars /\ jinja_vars[k] = cli_vars[k]
    /\ \A k \in DOMAIN jinja_vars \ DOMAIN cli_vars :
          k \in missing_vars /\ jinja_vars[k] = Placeholder(k)

C9_Witness ==
    /\ Logged("render")
    /\ ~args.noninteractive
    /\ missing_vars # {}
    /\ DOMAIN cli_vars \cap tmpl_vars # {}
    /\ DOMAIN render_arg = DOMAIN cli_vars \cup missing_vars

\* C10: send_message is invoked at most once and only after parse_message
\* has returned; in interactive mode only after the editor has exited with
\* status zero and the gate has returned true; after a declined gate the run
\* ends with status 0 without parsing or sending.
C10_SendOnce ==
    /\ Count("send_message") <= 1
    /\ Before("parsed", "send_message")
    /\ ~args.noninteractive =>
          /\ Before("editor_ok", "send_message")
          /\ Before("confirmed", "send_message")
          /\ Before("editor_ok", "confirmed")
    /\ Logged("send_message") => ~Logged("parse_failed") /\ ~args.dryrun
    /\ Logged("declined") =>
          /\ Exited
          /\ exit_code = 0
          /\ raised = "none"
          /\ ~Logged("parsed")
          /\ ~Logged("parse_failed")
          /\ ~Logged("send_message")
          /\ smtp = NoSmtp

C10_Witness ==
    /\ Logged("send_message")
    /\ ~args.noninteractive
    /\ smtp.submitted
    /\ Exited
    /\ exit_code = 0

=============================================================================
